---- MODULE Spec2Model ----
(***************************************************************************)
(* A model of the gravity simulator's core: CelestialBody (force           *)
(* accumulation, integration, trajectory history), OctreeNode (Barnes-Hut  *)
(* tree: insertion, mass aggregation, force traversal) and the Simulation  *)
(* step driver (bounds, tree rebuild, direct and approximate gravity,      *)
(* update, the input handler's pause / algorithm toggle / reset).          *)
(*                                                                         *)
(* Numbers.  A float is a fixed-point integer: a length, speed or          *)
(* acceleration x is held as x * SCALE, rounded to nearest.  A vec3 is a   *)
(* triple <<x, y, z>>; the vec3 whose components are all NaN (what         *)
(* glm::normalize gives for the zero vector, and everything computed from  *)
(* it) is NaNVec.  The cube of an octree node is held in units SUB times   *)
(* finer than a position, so that the halvings of subdivide are exact, as  *)
(* they are in binary floating point.                                      *)
(***************************************************************************)
EXTENDS Integers, Sequences, FiniteSets, TLC

\* ------------------------------------------------------------------------
\* Fixed-point arithmetic
\* ------------------------------------------------------------------------

\* float: one unit of length is SCALE model units (resolution 0.01).
SCALE == 100

Abs(a) == IF a < 0 THEN -a ELSE a
Min(a, b) == IF a < b THEN a ELSE b
Max(a, b) == IF a > b THEN a ELSE b

\* a / b for b > 0, rounded to nearest (halves away from zero).
RDiv(a, b) == IF a >= 0 THEN (a + b \div 2) \div b ELSE -((-a + b \div 2) \div b)

RECURSIVE ISqrt(_)
\* sqrtf on a non-negative integer, rounded down.
ISqrt(n) ==
  IF n < 2 THEN n
  ELSE LET r == 2 * ISqrt(n \div 4)
       IN  IF (r + 1) * (r + 1) <= n THEN r + 1 ELSE r

\* ------------------------------------------------------------------------
\* glm::vec3
\* ------------------------------------------------------------------------

Vec3(x, y, z) == <<x, y, z>>
Zero3 == Vec3(0, 0, 0)
\* The vec3 with every component NaN.
NaNVec == <<>>
IsNaN(v) == v = NaNVec

VAdd(a, b) ==
  IF IsNaN(a) \/ IsNaN(b) THEN NaNVec
  ELSE Vec3(a[1] + b[1], a[2] + b[2], a[3] + b[3])
VSub(a, b) ==
  IF IsNaN(a) \/ IsNaN(b) THEN NaNVec
  ELSE Vec3(a[1] - b[1], a[2] - b[2], a[3] - b[3])
\* v * (num / den), den > 0
VScale(v, num, den) ==
  IF IsNaN(v) THEN NaNVec
  ELSE Vec3(RDiv(v[1] * num, den), RDiv(v[2] * num, den), RDiv(v[3] * num, den))

\* Largest component magnitude for which the sum of three squares fits 32 bits.
LengthSafe == 25000

RECURSIVE Length(_)
\* glm::length of a vec3 that is not NaN.  Large vectors are measured at a
\* coarser resolution, as a float's relative precision does.
Length(v) ==
  IF Abs(v[1]) > LengthSafe \/ Abs(v[2]) > LengthSafe \/ Abs(v[3]) > LengthSafe
  THEN 16 * Length(Vec3(RDiv(v[1], 16), RDiv(v[2], 16), RDiv(v[3], 16)))
  ELSE ISqrt(v[1] * v[1] + v[2] * v[2] + v[3] * v[3])

\* glm::normalize: v * inversesqrt(dot(v, v)); for the zero vector that is
\* 0 * inf, NaN in every component.  The result is a unit vector at SCALE.
Normalize(v) ==
  IF IsNaN(v) THEN NaNVec
  ELSE LET len == Length(v)
       IN  IF len = 0 THEN NaNVec
           ELSE Vec3(RDiv(v[1] * SCALE, len), RDiv(v[2] * SCALE, len),
                     RDiv(v[3] * SCALE, len))

\* glm::min / glm::max, per component: min(x, y) is (y < x) ? y : x, so a NaN
\* second argument leaves the first.
VMin(a, b) ==
  IF IsNaN(b) THEN a
  ELSE Vec3(IF b[1] < a[1] THEN b[1] ELSE a[1],
            IF b[2] < a[2] THEN b[2] ELSE a[2],
            IF b[3] < a[3] THEN b[3] ELSE a[3])
VMax(a, b) ==
  IF IsNaN(b) THEN a
  ELSE Vec3(IF a[1] < b[1] THEN b[1] ELSE a[1],
            IF a[2] < b[2] THEN b[2] ELSE a[2],
            IF a[3] < b[3] THEN b[3] ELSE a[3])

\* ------------------------------------------------------------------------
\* CelestialBody
\* ------------------------------------------------------------------------

\* DEFAULT_GRAVITATIONAL_CONSTANT 0.1f
G == 10
\* The distance floor 0.1f of applyGravity and calculateForce.
SOFTENING == 10
\* CelestialBody::MAX_TRAJECTORY_POINTS
MAX_TRAJECTORY_POINTS == 500

\* CelestialBody::CelestialBody: acceleration zero, trajectory empty.
CelestialBody(pos, vel, m, fixed) ==
  [position |-> pos, velocity |-> vel, acceleration |-> Zero3, mass |-> m,
   isFixed |-> fixed, trajectory |-> <<>>]

\* The acceleration a point mass `m` at `srcPos` adds to a target at
\* `tgtPos` of mass `tgtMass` > 0: the body of applyGravity after its
\* identity test, which the approximated branch of calculateForce repeats
\* with centerOfMass and totalMass.  The source computes
\* forceMagnitude = G * tgtMass * m / distance^2 and adds
\* direction * (forceMagnitude / tgtMass); here the quotient is formed
\* without the product by tgtMass, which cancels, to stay within 32 bits.
PullOf(tgtPos, tgtMass, srcPos, m, g) ==
  LET direction == VSub(srcPos, tgtPos)
  IN  IF IsNaN(direction) THEN NaNVec
      ELSE LET len      == Length(direction)
               distance == IF len < SOFTENING THEN SOFTENING ELSE len
               unit     == Normalize(direction)
               forceMagnitudeOverMass ==
                 RDiv(g * m * SCALE * SCALE, distance * distance)
           IN  VScale(unit, forceMagnitudeOverMass, SCALE)

\* What CelestialBody::applyGravity adds to the acceleration of body `self`
\* for the source `other`; both are indices into `bs` (the identity test
\* &other == this is on the objects, not their values).
GravityFrom(bs, self, other, g) ==
  IF other = self THEN Zero3
  ELSE PullOf(bs[self].position, bs[self].mass,
              bs[other].position, bs[other].mass, g)

\* CelestialBody::applyGravity
ApplyGravity(bs, self, other, g) ==
  IF other = self THEN bs
  ELSE [bs EXCEPT ![self].acceleration = VAdd(@, GravityFrom(bs, self, other, g))]

\* A variant of update without the early return for fixed bodies.
UpdateNoFixedTest(b, deltaTime) ==
  LET v == VAdd(b.velocity, VScale(b.acceleration, deltaTime, SCALE))
      half == VScale(VScale(b.acceleration, deltaTime, SCALE), deltaTime, 2 * SCALE)
  IN  [b EXCEPT !.velocity = v,
                !.position = VAdd(@, VAdd(VScale(v, deltaTime, SCALE), half)),
                !.acceleration = Zero3]

\* CelestialBody::update
Update(b, deltaTime) ==
  IF b.isFixed THEN [b EXCEPT !.acceleration = Zero3]
  ELSE LET v == VAdd(b.velocity, VScale(b.acceleration, deltaTime, SCALE))
           half == VScale(VScale(b.acceleration, deltaTime, SCALE),
                          deltaTime, 2 * SCALE)
       IN  [b EXCEPT !.velocity = v,
                     !.position = VAdd(@, VAdd(VScale(v, deltaTime, SCALE), half)),
                     !.acceleration = Zero3]

\* A variant of addTrajectoryPoint that drops the newest sample when full.
AddTrajectoryPointPopBack(b) ==
  LET pushed == Append(b.trajectory, b.position)
  IN  [b EXCEPT !.trajectory =
         IF Len(pushed) > MAX_TRAJECTORY_POINTS
         THEN SubSeq(pushed, 1, Len(pushed) - 1) ELSE pushed]

\* CelestialBody::addTrajectoryPoint
AddTrajectoryPoint(b) ==
  LET pushed == Append(b.trajectory, b.position)
  IN  [b EXCEPT !.trajectory =
         IF Len(pushed) > MAX_TRAJECTORY_POINTS THEN Tail(pushed) ELSE pushed]

\* CelestialBody::clearTrajectory
ClearTrajectory(b) == [b EXCEPT !.trajectory = <<b.position>>]

\* ------------------------------------------------------------------------
\* OctreeNode
\* ------------------------------------------------------------------------

\* BARNES_HUT_THETA 0.5f
BARNES_HUT_THETA == 50
OCTREE_MAX_DEPTH == 10
\* OCTREE_MIN_SIZE 0.1f
OCTREE_MIN_SIZE == 10

\* A node's center and size are held in units of 1 / SUB of a position unit:
\* eleven exact halvings take a root's size to the quarter of its deepest
\* subdivided node.
SUB == 2 ^ (OCTREE_MAX_DEPTH + 1)

\* CelestialBody *body: an index into the body collection, or nullptr.
NullBody == 0
\* std::unique_ptr<OctreeNode> children[8], all null.
NoChildren == <<>>

\* OctreeNode::OctreeNode
OctreeNode(center, size, depth) ==
  [center |-> center, size |-> size, totalMass |-> 0, centerOfMass |-> Zero3,
   children |-> NoChildren, body |-> NullBody, isLeaf |-> TRUE, depth |-> depth]

\* OctreeNode::contains: half-open on every axis; false for a NaN position.
Contains(node, position) ==
  IF IsNaN(position) THEN FALSE
  ELSE LET halfSize == node.size \div 2
       IN  \A a \in 1..3 :
             /\ position[a] * SUB >= node.center[a] - halfSize
             /\ position[a] * SUB <  node.center[a] + halfSize

\* OctreeNode::getOctant
GetOctant(node, position) ==
  (IF position[1] * SUB >= node.center[1] THEN 1 ELSE 0)
  + (IF position[2] * SUB >= node.center[2] THEN 2 ELSE 0)
  + (IF position[3] * SUB >= node.center[3] THEN 4 ELSE 0)

\* OctreeNode::getOctantCenter
GetOctantCenter(node, octant) ==
  LET quarterSize == node.size \div 4
  IN  Vec3(node.center[1] + (IF octant % 2 = 1 THEN quarterSize ELSE -quarterSize),
           node.center[2] + (IF (octant \div 2) % 2 = 1 THEN quarterSize ELSE -quarterSize),
           node.center[3] + (IF (octant \div 4) % 2 = 1 THEN quarterSize ELSE -quarterSize))

\* A variant of subdivide whose children keep their parent's depth.
SubdivideSameDepth(node) ==
  LET child(i) == OctreeNode(GetOctantCenter(node, i), node.size \div 2,
                             node.depth)
  IN  <<child(0), child(1), child(2), child(3), child(4), child(5), child(6),
        child(7)>>

\* OctreeNode::subdivide: the eight children, octant i at index i + 1.
Subdivide(node) ==
  LET child(i) == OctreeNode(GetOctantCenter(node, i), node.size \div 2,
                             node.depth + 1)
  IN  <<child(0), child(1), child(2), child(3), child(4), child(5), child(6),
        child(7)>>

RECURSIVE SumMass(_, _)
\* The children loop of updateMassProperties, children 1..k: totalMass.
SumMass(children, k) ==
  IF k = 0 THEN 0
  ELSE SumMass(children, k - 1)
       + (IF children[k].totalMass > 0 THEN children[k].totalMass ELSE 0)

RECURSIVE SumWeighted(_, _)
\* The children loop of updateMassProperties, children 1..k: weightedPosition.
SumWeighted(children, k) ==
  IF k = 0 THEN Zero3
  ELSE IF children[k].totalMass > 0
       THEN VAdd(SumWeighted(children, k - 1),
                 VScale(children[k].centerOfMass, children[k].totalMass, 1))
       ELSE SumWeighted(children, k - 1)

\* OctreeNode::updateMassProperties
UpdateMassProperties(node, bs) ==
  IF node.isLeaf /\ node.body # NullBody
  THEN [node EXCEPT !.totalMass = bs[node.body].mass,
                    !.centerOfMass = bs[node.body].position]
  ELSE IF ~node.isLeaf
  THEN LET total == SumMass(node.children, Len(node.children))
           weightedPosition == SumWeighted(node.children, Len(node.children))
       IN  [node EXCEPT !.totalMass = total,
                        !.centerOfMass =
                           IF total > 0 THEN VScale(weightedPosition, 1, total)
                           ELSE VScale(node.center, 1, SUB)]
  ELSE node

\* insertBody, the empty node: the body becomes the occupant.
OccupyEmpty(node, bs, b) ==
  [node EXCEPT !.body = b, !.totalMass = bs[b].mass,
               !.centerOfMass = bs[b].position, !.isLeaf = TRUE]

\* insertBody, an occupied leaf at the depth or size limit: the body is
\* folded into the aggregate and the occupant stays.
MergeIntoLeaf(node, bs, b) ==
  LET newTotalMass == node.totalMass + bs[b].mass
  IN  [node EXCEPT
         !.centerOfMass =
            VScale(VAdd(VScale(node.centerOfMass, node.totalMass, 1),
                        VScale(bs[b].position, bs[b].mass, 1)), 1, newTotalMass),
         !.totalMass = newTotalMass]

\* A variant of the test that looks at the size alone.
AtLimitSizeOnly(node) ==
  node.size < OCTREE_MIN_SIZE * SUB

\* The test that selects the merge: depth >= OCTREE_MAX_DEPTH || size < OCTREE_MIN_SIZE
AtLimit(node) ==
  node.depth >= OCTREE_MAX_DEPTH \/ node.size < OCTREE_MIN_SIZE * SUB

RECURSIVE InsertBody(_, _, _)
\* OctreeNode::insertBody
InsertBody(node, bs, b) ==
  IF ~Contains(node, bs[b].position) THEN node
  ELSE IF node.totalMass = 0 THEN OccupyEmpty(node, bs, b)
  ELSE IF node.isLeaf /\ node.body # NullBody
  THEN IF AtLimit(node) THEN MergeIntoLeaf(node, bs, b)
       ELSE LET existingBody == node.body
                split == [node EXCEPT !.body = NullBody, !.isLeaf = FALSE,
                                      !.children = Subdivide(node)]
                existingOctant == GetOctant(split, bs[existingBody].position)
                first == [split EXCEPT !.children[existingOctant + 1] =
                                          InsertBody(@, bs, existingBody)]
                newOctant == GetOctant(first, bs[b].position)
                second == [first EXCEPT !.children[newOctant + 1] =
                                           InsertBody(@, bs, b)]
            IN  UpdateMassProperties(second, bs)
  ELSE IF ~node.isLeaf
  THEN LET octant == GetOctant(node, bs[b].position)
       IN  UpdateMassProperties(
             [node EXCEPT !.children[octant + 1] = InsertBody(@, bs, b)], bs)
  ELSE UpdateMassProperties(node, bs)

\* A variant of shouldUseApproximation with the comparison turned round.
ShouldUseApproximationInverted(node, targetPosition, theta) ==
  LET d == VSub(node.centerOfMass, targetPosition)
  IN  IF IsNaN(d) THEN FALSE
      ELSE LET distance == Length(d)
           IN  IF distance < SOFTENING THEN FALSE
               ELSE RDiv(node.size, SUB) * SCALE > theta * distance

\* OctreeNode::shouldUseApproximation: size / distance < theta, never when
\* the distance is under the floor (or NaN).
ShouldUseApproximation(node, targetPosition, theta) ==
  LET d == VSub(node.centerOfMass, targetPosition)
  IN  IF IsNaN(d) THEN FALSE
      ELSE LET distance == Length(d)
           IN  IF distance < SOFTENING THEN FALSE
               ELSE RDiv(node.size, SUB) * SCALE < theta * distance

\* What a leaf contributes when it acts as a point mass of its totalMass at
\* its centerOfMass (nothing on its own occupant).
LeafForceAggregate(node, bs, target, g) ==
  IF node.body = target THEN Zero3
  ELSE PullOf(bs[target].position, bs[target].mass,
              node.centerOfMass, node.totalMass, g)

\* calculateForce at a leaf with an occupant: nothing on the occupant
\* itself, else applyGravity from the occupant body.
LeafForce(node, bs, target, g) ==
  IF node.body = target THEN Zero3
  ELSE GravityFrom(bs, target, node.body, g)

\* calculateForce at an approximated internal node: a point mass totalMass
\* at centerOfMass.
ApproximateForce(node, bs, target, g) ==
  PullOf(bs[target].position, bs[target].mass,
         node.centerOfMass, node.totalMass, g)

\* The sum of the eight vectors f[1..8]: NaN as soon as one of them is.
Sum8(f) ==
  IF \E i \in 1..8 : IsNaN(f[i]) THEN NaNVec
  ELSE Vec3(f[1][1] + f[2][1] + f[3][1] + f[4][1] + f[5][1] + f[6][1] + f[7][1] + f[8][1],
            f[1][2] + f[2][2] + f[3][2] + f[4][2] + f[5][2] + f[6][2] + f[7][2] + f[8][2],
            f[1][3] + f[2][3] + f[3][3] + f[4][3] + f[5][3] + f[6][3] + f[7][3] + f[8][3])

RECURSIVE ForceOf(_, _, _, _, _)
\* What OctreeNode::calculateForce on `node` adds to target's acceleration
\* (the sum of the contributions it applies one by one).
ForceOf(node, bs, target, g, theta) ==
  IF node.totalMass = 0 THEN Zero3
  ELSE IF node.isLeaf /\ node.body # NullBody THEN LeafForce(node, bs, target, g)
  ELSE IF ~node.isLeaf
  THEN IF ShouldUseApproximation(node, bs[target].position, theta)
       THEN ApproximateForce(node, bs, target, g)
       ELSE Sum8(<<ForceOf(node.children[1], bs, target, g, theta),
                   ForceOf(node.children[2], bs, target, g, theta),
                   ForceOf(node.children[3], bs, target, g, theta),
                   ForceOf(node.children[4], bs, target, g, theta),
                   ForceOf(node.children[5], bs, target, g, theta),
                   ForceOf(node.children[6], bs, target, g, theta),
                   ForceOf(node.children[7], bs, target, g, theta),
                   ForceOf(node.children[8], bs, target, g, theta)>>)
  ELSE Zero3

\* OctreeNode::calculateForce: the body collection with target's
\* acceleration accumulated.
CalculateForce(node, bs, target, g, theta) ==
  [bs EXCEPT ![target].acceleration = VAdd(@, ForceOf(node, bs, target, g, theta))]

\* ------------------------------------------------------------------------
\* Simulation: bounds, tree rebuild, the two gravity routines
\* ------------------------------------------------------------------------

\* DEFAULT_TIME_SCALE 1.0f
DEFAULT_TIME_SCALE == 100
\* The limits handleInput keeps timeScale within: 10.0f and 0.1f.
MAX_TIME_SCALE == 1000
MIN_TIME_SCALE == 10
\* float minSize = 100.f, the floor on the bounds' diagonal
MIN_BOUNDS_SIZE == 10000
\* std::numeric_limits<float>::max(), beyond every position of the model
FLT_MAX == 2 ^ 30
\* glm::vec3(-1000.0f) and glm::vec3(1000.0f), the bounds of an empty scene
EMPTY_BOUND == 1000 * SCALE

RECURSIVE FoldMin(_, _)
FoldMin(bs, k) ==
  IF k = 0 THEN Vec3(FLT_MAX, FLT_MAX, FLT_MAX)
  ELSE VMin(FoldMin(bs, k - 1), bs[k].position)

RECURSIVE FoldMax(_, _)
FoldMax(bs, k) ==
  IF k = 0 THEN Vec3(-FLT_MAX, -FLT_MAX, -FLT_MAX)
  ELSE VMax(FoldMax(bs, k - 1), bs[k].position)

\* The padding step of calculateBounds: spaceMax -= padding; spaceMax += padding.
PadMax(lo, hi) ==
  LET padding == VScale(VSub(hi, lo), 2, 10)
  IN  VAdd(VSub(hi, padding), padding)

\* Simulation::calculateBounds: <<spaceMin, spaceMax>>
CalculateBounds(bs) ==
  IF Len(bs) = 0
  THEN <<Vec3(-EMPTY_BOUND, -EMPTY_BOUND, -EMPTY_BOUND),
         Vec3(EMPTY_BOUND, EMPTY_BOUND, EMPTY_BOUND)>>
  ELSE LET lo == FoldMin(bs, Len(bs))
           hi == PadMax(lo, FoldMax(bs, Len(bs)))
           size == VSub(hi, lo)
           half == MIN_BOUNDS_SIZE \div 2
       IN  IF Length(size) < MIN_BOUNDS_SIZE
           THEN LET center == VScale(VAdd(lo, hi), 1, 2)
                IN  <<VSub(center, Vec3(half, half, half)),
                      VAdd(center, Vec3(half, half, half))>>
           ELSE <<lo, hi>>

\* The root buildOctree and the constructor make from the bounds: center
\* their midpoint, size the length of their diagonal.
RootOf(lo, hi) ==
  OctreeNode(VScale(VAdd(lo, hi), SUB \div 2, 1), Length(VSub(hi, lo)) * SUB, 0)

RECURSIVE InsertAll(_, _, _)
\* The insertion loop of buildOctree, bodies 1..k.
InsertAll(root, bs, k) ==
  IF k = 0 THEN root ELSE InsertBody(InsertAll(root, bs, k - 1), bs, k)

\* Simulation::buildOctree: the tree it leaves in octreeRoot.
BuildOctree(bs) ==
  LET bounds == CalculateBounds(bs)
  IN  UpdateMassProperties(
        InsertAll(RootOf(bounds[1], bounds[2]), bs, Len(bs)), bs)

RECURSIVE PairLoop(_, _, _, _)
\* The inner loop of updateGravityDirect for body i, sources 1..k.
PairLoop(bs, i, k, g) ==
  IF k = 0 THEN bs
  ELSE LET before == PairLoop(bs, i, k - 1, g)
       IN  IF i # k THEN ApplyGravity(before, i, k, g) ELSE before

\* A variant of the outer-loop iteration that moves body i as soon as its own
\* acceleration is known, before the later bodies have read its position.
DirectGravityOnThenIntegrate(bs, i, g) ==
  LET pulled == PairLoop(IF ~bs[i].isFixed
                         THEN [bs EXCEPT ![i].acceleration = Zero3] ELSE bs,
                         i, Len(bs), g)
  IN  [pulled EXCEPT ![i] = Update(@, SCALE)]

\* One iteration of the outer loop of updateGravityDirect.
DirectGravityOn(bs, i, g) ==
  PairLoop(IF ~bs[i].isFixed THEN [bs EXCEPT ![i].acceleration = Zero3] ELSE bs,
           i, Len(bs), g)

\* One iteration of the loop of updateGravityBarnesHut.
BarnesHutGravityOn(root, bs, i, g, th) ==
  IF ~bs[i].isFixed
  THEN CalculateForce(root, [bs EXCEPT ![i].acceleration = Zero3], i, g, th)
  ELSE bs

RECURSIVE DirectLoop(_, _, _)
DirectLoop(bs, k, g) ==
  IF k = 0 THEN bs ELSE DirectGravityOn(DirectLoop(bs, k - 1, g), k, g)

\* Simulation::updateGravityDirect, all bodies.
UpdateGravityDirect(bs, g) == DirectLoop(bs, Len(bs), g)

RECURSIVE BarnesHutLoop(_, _, _, _, _)
BarnesHutLoop(root, bs, k, g, th) ==
  IF k = 0 THEN bs
  ELSE BarnesHutGravityOn(root, BarnesHutLoop(root, bs, k - 1, g, th), k, g, th)

\* Simulation::updateGravityBarnesHut, all bodies (after buildOctree).
UpdateGravityBarnesHut(bs, g, th) ==
  BarnesHutLoop(BuildOctree(bs), bs, Len(bs), g, th)

\* ------------------------------------------------------------------------
\* Simulation: state, the main loop, one tick step by step
\* ------------------------------------------------------------------------

VARIABLES
  bodies,                  \* std::vector<CelestialBody> bodies
  octreeRoot,              \* std::unique_ptr<OctreeNode> octreeRoot
  spaceMin, spaceMax,      \* glm::vec3 spaceMin, spaceMax
  paused,                  \* bool paused
  useBarnesHut,            \* bool useBarnesHut
  trajectoryUpdateCounter, \* int trajectoryUpdateCounter
  theta,                   \* the theta calculateForce is run with
  timeScale,               \* float timeScale
  treeStale,               \* a reset replaced the bodies octreeRoot was built from
  keys,                    \* the keys handleInput saw newly pressed this frame
  deltaTime,               \* main's deltaTime of this frame
  pc,                      \* where the frame is: handleInput, or a phase of update
  idx,                     \* the loop index of the phase
  tickStart,               \* the bodies as they were when update was entered
  frames                   \* frames begun so far

vars == <<bodies, octreeRoot, spaceMin, spaceMax, paused, useBarnesHut,
          trajectoryUpdateCounter, theta, timeScale, treeStale, keys, deltaTime, pc,
          idx, tickStart,
          frames>>

\* Frames a run of the main loop goes through.
MaxFrames == 3

\* The frame times main measures: a second.
DeltaTimes == {SCALE}

\* The keys of handleInput that change the core's state.
Keys == {"SPACE", "B", "W", "S", "R"}
\* What a frame's handleInput sees: no key, or one of them newly pressed.
KeyPresses == {{}} \cup {{k} : k \in Keys}

\* The directions the seeding draws an angle from: cos and sin as a pair.
Angles == {<<1, 0>>, <<0, 1>>}

\* An orbiter of setupScene's loops: at `distance` from the origin in the
\* plane y = 0, direction `angle`, moving tangentially at `orbitalSpeed`.
Orbiter(distance, angle, orbitalSpeed, m) ==
  CelestialBody(Vec3(distance * angle[1], 0, distance * angle[2]),
                Vec3(-orbitalSpeed * angle[2], 0, orbitalSpeed * angle[1]),
                m, FALSE)

\* Simulation::setupScene: the fixed central body of mass 1000 at the origin
\* and two orbiters, at distances 8 and 16 with speeds 0.8 * sqrt(G * 1000 / d).
SetupScene(angle1, angle2) ==
  << CelestialBody(Zero3, Zero3, 1000, TRUE),
     Orbiter(8 * SCALE, angle1, 283, 20),
     Orbiter(16 * SCALE, angle2, 200, 2) >>

Scenes == { SetupScene(a1, a2) : a1 \in Angles, a2 \in Angles }

\* Simulation::Simulation: the scene seeded, the bounds computed, an empty
\* root made from them.
Init ==
  /\ bodies \in Scenes
  /\ spaceMin = CalculateBounds(bodies)[1]
  /\ spaceMax = CalculateBounds(bodies)[2]
  /\ octreeRoot = RootOf(spaceMin, spaceMax)
  /\ paused = FALSE
  /\ useBarnesHut = TRUE
  /\ trajectoryUpdateCounter = 0
  /\ theta = BARNES_HUT_THETA
  /\ timeScale = DEFAULT_TIME_SCALE
  /\ treeStale = FALSE
  /\ keys = {}
  /\ deltaTime = SCALE
  /\ pc = "handleInput"
  /\ idx = 0
  /\ tickStart = bodies
  /\ frames = 0

\* The top of main's loop and Simulation::handleInput: SPACE toggles the
\* pause, B the algorithm, W and S scale the time step within its limits, R
\* clears the bodies and seeds the scene again.  The keys are those the
\* handler sees newly pressed (its static flags make a held key act once);
\* T, A and D change only what render draws.
HandleInput ==
  /\ pc = "handleInput"
  /\ frames < MaxFrames
  /\ \E ks \in KeyPresses, dtm \in DeltaTimes, scene \in Scenes :
       /\ keys' = ks
       /\ deltaTime' = dtm
       /\ paused' = IF "SPACE" \in ks THEN ~paused ELSE paused
       /\ useBarnesHut' = IF "B" \in ks THEN ~useBarnesHut ELSE useBarnesHut
       /\ timeScale' =
            IF "W" \in ks THEN Min(RDiv(timeScale * 11, 10), MAX_TIME_SCALE)
            ELSE IF "S" \in ks THEN Max(RDiv(timeScale * 9, 10), MIN_TIME_SCALE)
            ELSE timeScale
       /\ IF "R" \in ks
          THEN /\ bodies' = scene
               /\ spaceMin' = CalculateBounds(scene)[1]
               /\ spaceMax' = CalculateBounds(scene)[2]
               /\ treeStale' = TRUE
          ELSE /\ scene = SetupScene(<<1, 0>>, <<1, 0>>)
               /\ UNCHANGED <<bodies, spaceMin, spaceMax, treeStale>>
  /\ frames' = frames + 1
  /\ pc' = "update"
  /\ UNCHANGED <<octreeRoot, trajectoryUpdateCounter, theta, idx, tickStart>>

\* dt = deltaTime * timeScale
Dt == RDiv(deltaTime * timeScale, SCALE)

\* Simulation::update, entry: a paused simulation skips the tick; else the
\* selected gravity routine starts.
UpdateEnter ==
  /\ pc = "update"
  /\ tickStart' = bodies
  /\ IF paused THEN pc' = "handleInput" /\ idx' = 0
     ELSE IF useBarnesHut THEN pc' = "buildOctree" /\ idx' = 0
     ELSE pc' = "direct" /\ idx' = 1
  /\ UNCHANGED <<bodies, octreeRoot, spaceMin, spaceMax, paused, useBarnesHut,
                 trajectoryUpdateCounter, theta, timeScale, treeStale, keys, deltaTime, frames>>

\* buildOctree, up to its loop: the bounds and a fresh empty root.
BuildOctreeStart ==
  /\ pc = "buildOctree"
  /\ spaceMin' = CalculateBounds(bodies)[1]
  /\ spaceMax' = CalculateBounds(bodies)[2]
  /\ octreeRoot' = RootOf(spaceMin', spaceMax')
  /\ treeStale' = FALSE
  /\ pc' = "insert"
  /\ idx' = 1
  /\ UNCHANGED <<bodies, paused, useBarnesHut, trajectoryUpdateCounter, theta, timeScale,
                 keys, deltaTime, tickStart, frames>>

\* buildOctree, one iteration of its loop; after the last body the root's
\* updateMassProperties, and the force loop of updateGravityBarnesHut begins.
InsertStep ==
  /\ pc = "insert"
  /\ LET inserted == InsertBody(octreeRoot, bodies, idx)
     IN  IF idx = Len(bodies)
         THEN /\ octreeRoot' = UpdateMassProperties(inserted, bodies)
              /\ pc' = "barnesHut"
              /\ idx' = 1
         ELSE /\ octreeRoot' = inserted
              /\ pc' = "insert"
              /\ idx' = idx + 1
  /\ UNCHANGED <<bodies, spaceMin, spaceMax, paused, useBarnesHut,
                 trajectoryUpdateCounter, theta, timeScale, treeStale, keys, deltaTime, tickStart, frames>>

\* updateGravityBarnesHut, one iteration of its force loop.
BarnesHutStep ==
  /\ pc = "barnesHut"
  /\ bodies' = BarnesHutGravityOn(octreeRoot, bodies, idx, G, theta)
  /\ IF idx = Len(bodies) THEN pc' = "integrate" /\ idx' = 1
     ELSE pc' = "barnesHut" /\ idx' = idx + 1
  /\ UNCHANGED <<octreeRoot, spaceMin, spaceMax, paused, useBarnesHut,
                 trajectoryUpdateCounter, theta, timeScale, treeStale, keys, deltaTime, tickStart, frames>>

\* updateGravityDirect, one iteration of its outer loop.
DirectStep ==
  /\ pc = "direct"
  /\ bodies' = DirectGravityOn(bodies, idx, G)
  /\ IF idx = Len(bodies) THEN pc' = "integrate" /\ idx' = 1
     ELSE pc' = "direct" /\ idx' = idx + 1
  /\ UNCHANGED <<octreeRoot, spaceMin, spaceMax, paused, useBarnesHut,
                 trajectoryUpdateCounter, theta, timeScale, treeStale, keys, deltaTime, tickStart, frames>>

\* update, one iteration of the integration loop.
IntegrateStep ==
  /\ pc = "integrate"
  /\ bodies' = [bodies EXCEPT ![idx] = Update(@, Dt)]
  /\ IF idx = Len(bodies) THEN pc' = "trajectory" /\ idx' = 0
     ELSE pc' = "integrate" /\ idx' = idx + 1
  /\ UNCHANGED <<octreeRoot, spaceMin, spaceMax, paused, useBarnesHut,
                 trajectoryUpdateCounter, theta, timeScale, treeStale, keys, deltaTime, tickStart, frames>>

\* The trajectory block of update for a counter value already incremented.
SampleTrajectories(bs, counter) ==
  IF counter >= 1
  THEN [i \in DOMAIN bs |-> IF ~bs[i].isFixed THEN AddTrajectoryPoint(bs[i]) ELSE bs[i]]
  ELSE bs

\* update, the trajectory block; the frame is over (render changes nothing
\* of this state).
TrajectoryStep ==
  /\ pc = "trajectory"
  /\ bodies' = SampleTrajectories(bodies, trajectoryUpdateCounter + 1)
  /\ trajectoryUpdateCounter' =
       IF trajectoryUpdateCounter + 1 >= 1 THEN 0 ELSE trajectoryUpdateCounter + 1
  /\ pc' = "handleInput"
  /\ idx' = 0
  /\ UNCHANGED <<octreeRoot, spaceMin, spaceMax, paused, useBarnesHut, theta, timeScale, treeStale,
                 keys, deltaTime, tickStart, frames>>

\* One tick of Simulation::update, phase by phase.
Tick ==
  \/ UpdateEnter
  \/ BuildOctreeStart
  \/ InsertStep
  \/ BarnesHutStep
  \/ DirectStep
  \/ IntegrateStep
  \/ TrajectoryStep

Next == HandleInput \/ Tick

\* The simulator: construction, then the main loop.
Spec == Init /\ [][Next]_vars

\* ------------------------------------------------------------------------
\* One tick on an arbitrary body configuration
\* ------------------------------------------------------------------------

\* Where the bodies of a configuration are put: the origin, two points a
\* hundredth of a unit apart, a point 100 units down the x axis, a point
\* near the pair and a point off every axis.
Points ==
  { Zero3, Vec3(10 * SCALE, 0, 0), Vec3(10 * SCALE + 1, 0, 0),
    Vec3(-100 * SCALE, 0, 0), Vec3(12 * SCALE, 0, 0),
    Vec3(3 * SCALE, 4 * SCALE, -2 * SCALE) }

\* The configurations: a body of mass 1000 at the origin, fixed or not, and
\* one to three bodies at rest, of masses 1, 20 and 20, each at one of Points.
Configs ==
  { <<CelestialBody(Zero3, Zero3, 1000, f), CelestialBody(p2, Zero3, 1, FALSE)>> :
      f \in BOOLEAN, p2 \in Points }
  \cup
  { <<CelestialBody(Zero3, Zero3, 1000, f), CelestialBody(p2, Zero3, 1, FALSE),
      CelestialBody(p3, Zero3, 20, FALSE)>> :
      f \in BOOLEAN, p2 \in Points, p3 \in Points }
  \cup
  { <<CelestialBody(Zero3, Zero3, 1000, f), CelestialBody(p2, Zero3, 1, FALSE),
      CelestialBody(p3, Zero3, 20, FALSE), CelestialBody(p4, Zero3, 20, FALSE)>> :
      f \in BOOLEAN, p2 \in Points, p3 \in Points, p4 \in Points }

\* A simulation holding a configuration, in either mode, about to run
\* update once with dt = 1; calculateForce is run with theta 0 or 0.5.
InitConfig ==
  /\ bodies \in Configs
  /\ spaceMin = CalculateBounds(bodies)[1]
  /\ spaceMax = CalculateBounds(bodies)[2]
  /\ octreeRoot = RootOf(spaceMin, spaceMax)
  /\ paused = FALSE
  /\ useBarnesHut \in BOOLEAN
  /\ trajectoryUpdateCounter = 0
  /\ theta \in {0, BARNES_HUT_THETA}
  /\ timeScale = DEFAULT_TIME_SCALE
  /\ treeStale = FALSE
  /\ keys = {}
  /\ deltaTime = SCALE
  /\ pc = "update"
  /\ idx = 0
  /\ tickStart = bodies
  /\ frames = 1

SpecConfig == InitConfig /\ [][Tick]_vars

\* ------------------------------------------------------------------------
\* A lone body's trajectory history
\* ------------------------------------------------------------------------

\* Frames the lone body is followed for: enough to overfill its history.
TrajFrames == MAX_TRAJECTORY_POINTS + 3

\* clearTrajectory is called within this many frames of the start, or once
\* the history is full.
ClearEarly == 2

\* What the lone body moves by in a tick of one second.
TrajStride == Vec3(SCALE, 0, 0)

\* A simulation in direct mode holding one free body that moves a unit of
\* length per second (nothing pulls it).
InitTraj ==
  /\ bodies = <<CelestialBody(Zero3, TrajStride, 1, FALSE)>>
  /\ spaceMin = CalculateBounds(bodies)[1]
  /\ spaceMax = CalculateBounds(bodies)[2]
  /\ octreeRoot = RootOf(spaceMin, spaceMax)
  /\ paused = FALSE
  /\ useBarnesHut = FALSE
  /\ trajectoryUpdateCounter = 0
  /\ theta = BARNES_HUT_THETA
  /\ timeScale = DEFAULT_TIME_SCALE
  /\ treeStale = FALSE
  /\ keys = {}
  /\ deltaTime = SCALE
  /\ pc = "handleInput"
  /\ idx = 0
  /\ tickStart = bodies
  /\ frames = 0

\* A frame in which handleInput sees no key.
FrameNoKey ==
  /\ pc = "handleInput"
  /\ frames < TrajFrames
  /\ frames' = frames + 1
  /\ pc' = "update"
  /\ UNCHANGED <<bodies, octreeRoot, spaceMin, spaceMax, paused, useBarnesHut,
                 trajectoryUpdateCounter, theta, timeScale, treeStale, keys, deltaTime, idx, tickStart>>

\* A call of CelestialBody::clearTrajectory on the body, between two frames.
ClearTrajectoryCall ==
  /\ pc = "handleInput"
  /\ frames <= ClearEarly \/ Len(bodies[1].trajectory) = MAX_TRAJECTORY_POINTS
  /\ bodies[1].trajectory # <<bodies[1].position>>
  /\ bodies' = [bodies EXCEPT ![1] = ClearTrajectory(@)]
  /\ UNCHANGED <<octreeRoot, spaceMin, spaceMax, paused, useBarnesHut,
                 trajectoryUpdateCounter, theta, timeScale, treeStale, keys, deltaTime, pc, idx,
                 tickStart, frames>>

NextTraj ==
  \/ FrameNoKey
  \/ ClearTrajectoryCall
  \/ UpdateEnter
  \/ DirectStep
  \/ IntegrateStep
  \/ TrajectoryStep

SpecTraj == InitTraj /\ [][NextTraj]_vars

\* ------------------------------------------------------------------------
\* An octree used on its own: insertBody calls, then updateMassProperties
\* ------------------------------------------------------------------------

\* The bodies inserted: two or three, of masses 1, 20 and 20, at Points.
TreeConfigs ==
  { <<CelestialBody(p1, Zero3, 1, FALSE), CelestialBody(p2, Zero3, 20, FALSE)>> :
      p1 \in Points, p2 \in Points }
  \cup
  { <<CelestialBody(p1, Zero3, 1, FALSE), CelestialBody(p2, Zero3, 20, FALSE),
      CelestialBody(p3, Zero3, 20, FALSE)>> :
      p1 \in Points, p2 \in Points, p3 \in Points }

\* The roots OctreeNode's constructor is called for: a cube of side 400
\* about the origin, and a cube of side 0.05 (below OCTREE_MIN_SIZE) about
\* the point (10, 0, 0).
TreeRoots ==
  { OctreeNode(Zero3, 400 * SCALE * SUB, 0),
    OctreeNode(Vec3(10 * SCALE * SUB, 0, 0), (OCTREE_MIN_SIZE \div 2) * SUB, 0) }

\* A fresh root and bodies that all lie inside its cube.
InitTree ==
  /\ bodies \in TreeConfigs
  /\ octreeRoot \in TreeRoots
  /\ \A i \in DOMAIN bodies : Contains(octreeRoot, bodies[i].position)
  /\ spaceMin = CalculateBounds(bodies)[1]
  /\ spaceMax = CalculateBounds(bodies)[2]
  /\ paused = FALSE
  /\ useBarnesHut = TRUE
  /\ trajectoryUpdateCounter = 0
  /\ theta = BARNES_HUT_THETA
  /\ timeScale = DEFAULT_TIME_SCALE
  /\ treeStale = FALSE
  /\ keys = {}
  /\ deltaTime = SCALE
  /\ pc = "treeInsert"
  /\ idx = 1
  /\ tickStart = bodies
  /\ frames = 0

\* A call of insertBody on the root for the next body.
TreeInsertBody ==
  /\ pc = "treeInsert"
  /\ octreeRoot' = InsertBody(octreeRoot, bodies, idx)
  /\ IF idx = Len(bodies) THEN pc' = "treeUpdate" /\ idx' = 0
     ELSE pc' = "treeInsert" /\ idx' = idx + 1
  /\ UNCHANGED <<bodies, spaceMin, spaceMax, paused, useBarnesHut,
                 trajectoryUpdateCounter, theta, timeScale, treeStale, keys, deltaTime,
                 tickStart, frames>>

\* A call of updateMassProperties on the root, after the insertions.
TreeUpdateMassProperties ==
  /\ pc = "treeUpdate"
  /\ octreeRoot' = UpdateMassProperties(octreeRoot, bodies)
  /\ pc' = "treeDone"
  /\ UNCHANGED <<bodies, spaceMin, spaceMax, paused, useBarnesHut,
                 trajectoryUpdateCounter, theta, timeScale, treeStale, keys, deltaTime,
                 idx, tickStart, frames>>

NextTree == TreeInsertBody \/ TreeUpdateMassProperties

SpecTree == InitTree /\ [][NextTree]_vars

\* ------------------------------------------------------------------------
\* Properties
\* ------------------------------------------------------------------------

\* The two-body scenario: a fixed body of mass 1000 at the origin and a free
\* body of mass 1 at rest at x = 10.
ScenarioBodies ==
  <<CelestialBody(Zero3, Zero3, 1000, TRUE),
    CelestialBody(Vec3(10 * SCALE, 0, 0), Zero3, 1, FALSE)>>

\* C1: after one direct-mode tick with dt = 1 on the two-body scenario
\* (G = 0.1), the light body's velocity is 1.0 toward the origin and its
\* position has moved by exactly 0.5 toward the origin, from x = 10 to 9.5.
C1_ScenarioMovesHalfUnit ==
  (tickStart = ScenarioBodies /\ ~useBarnesHut /\ Dt = SCALE /\ pc = "trajectory")
    => /\ bodies[2].velocity = Vec3(-SCALE, 0, 0)
       /\ bodies[2].position = Vec3(10 * SCALE - SCALE \div 2, 0, 0)

\* C2: a fixed body's position and velocity are the same after every step
\* of the simulator as before it: ticks in either mode, pauses, toggles and
\* whatever the other bodies exert on it.
C2_FixedBodyInvariance ==
  [][\A i \in DOMAIN bodies :
       bodies[i].isFixed =>
         /\ i \in DOMAIN bodies'
         /\ bodies'[i].position = bodies[i].position
         /\ bodies'[i].velocity = bodies[i].velocity]_vars

\* C2's case: a second tick is under way in direct mode, the forces have
\* been accumulated, and the fixed body, pushed by the others, is where it
\* was seeded.
C2_Witness ==
  /\ pc = "integrate" /\ idx = 1 /\ ~useBarnesHut
  /\ bodies[1].isFixed /\ bodies[1].acceleration # Zero3
  /\ bodies[1].position = Zero3 /\ bodies[1].velocity = Zero3
  /\ Len(bodies[2].trajectory) >= 1

\* C3: a trajectory never holds more than MAX_TRAJECTORY_POINTS samples; its
\* samples are the most recent positions in the order they were appended
\* (here consecutive positions a stride apart, ending between frames with the
\* current one); and an append to a full history removes exactly the oldest.
C3_TrajectoryCap ==
  /\ [](\A i \in DOMAIN bodies :
          LET t == bodies[i].trajectory
          IN  /\ Len(t) <= MAX_TRAJECTORY_POINTS
              /\ \A k \in 1..(Len(t) - 1) : t[k + 1] = VAdd(t[k], TrajStride)
              /\ (pc = "handleInput" /\ Len(t) > 0) => t[Len(t)] = bodies[i].position)
  /\ [][\A i \in DOMAIN bodies :
          (pc = "trajectory" /\ Len(bodies[i].trajectory) = MAX_TRAJECTORY_POINTS)
            => bodies'[i].trajectory =
                 Append(Tail(bodies[i].trajectory), bodies[i].position)]_vars

\* C3's case: more samples were appended than the cap, the history is full
\* and its oldest sample is no longer the first one recorded.
C3_Witness ==
  /\ pc = "handleInput" /\ frames > MAX_TRAJECTORY_POINTS
  /\ Len(bodies[1].trajectory) = MAX_TRAJECTORY_POINTS
  /\ bodies[1].trajectory[1] # TrajStride
  /\ bodies[1].trajectory[MAX_TRAJECTORY_POINTS] = bodies[1].position

RECURSIVE MassSumsHold(_)
\* Every internal node's totalMass is the sum of its children's.
MassSumsHold(node) ==
  \/ node.children = NoChildren
  \/ /\ node.totalMass =
          node.children[1].totalMass + node.children[2].totalMass
          + node.children[3].totalMass + node.children[4].totalMass
          + node.children[5].totalMass + node.children[6].totalMass
          + node.children[7].totalMass + node.children[8].totalMass
     /\ \A i \in 1..8 : MassSumsHold(node.children[i])

RECURSIVE MassOf(_, _)
\* The sum of the masses of bodies 1..k that lie inside the cube of `root`.
MassOf(root, k) ==
  IF k = 0 THEN 0
  ELSE MassOf(root, k - 1)
       + (IF Contains(root, bodies[k].position) THEN bodies[k].mass ELSE 0)

RECURSIVE HasMergedLeaf(_)
\* Some leaf of the tree holds more mass than its occupant's.
HasMergedLeaf(node) ==
  IF node.children = NoChildren
  THEN node.body # NullBody /\ node.totalMass > bodies[node.body].mass
  ELSE \E i \in 1..8 : HasMergedLeaf(node.children[i])

\* C4: once the bodies have been inserted and updateMassProperties has run
\* on the root, the root's totalMass is the sum of the masses of the bodies
\* inside the root cube, and every internal node's totalMass is the sum of
\* its 8 children's, merged leaves included.
C4_MassConservation ==
  pc \in {"barnesHut", "treeDone"} =>
    /\ octreeRoot.totalMass = MassOf(octreeRoot, Len(bodies))
    /\ MassSumsHold(octreeRoot)

\* C5: the root buildOctree makes from the bounds contains every body's
\* position, so that insertBody drops none.
C5_NoBodyDropped ==
  pc \in {"insert", "barnesHut"} =>
    \A i \in DOMAIN bodies : Contains(octreeRoot, bodies[i].position)

RECURSIVE PointMassForce(_, _)
\* The traversal of calculateForce with every internal node opened, each
\* occupied leaf counted as a point mass totalMass at centerOfMass (and the
\* target's own leaf skipped).
PointMassForce(node, target) ==
  IF node.totalMass = 0 THEN Zero3
  ELSE IF node.children = NoChildren
  THEN LeafForceAggregate(node, bodies, target, G)
  ELSE Sum8(<<PointMassForce(node.children[1], target),
              PointMassForce(node.children[2], target),
              PointMassForce(node.children[3], target),
              PointMassForce(node.children[4], target),
              PointMassForce(node.children[5], target),
              PointMassForce(node.children[6], target),
              PointMassForce(node.children[7], target),
              PointMassForce(node.children[8], target)>>)

\* The force loop of updateGravityBarnesHut has just ended, run with theta 0.
ForcesDoneThetaZero ==
  pc = "integrate" /\ idx = 1 /\ useBarnesHut /\ theta = 0

\* C6: in the force traversal a leaf holding merged bodies acts on a target
\* as a point mass of the leaf's totalMass at its centerOfMass, so the mass
\* of every merged body is accounted for.
C6_MergedLeafIsPointMass ==
  ForcesDoneThetaZero =>
    \A t \in DOMAIN bodies :
      ~bodies[t].isFixed =>
        bodies[t].acceleration = PointMassForce(octreeRoot, t)

\* C7: with theta = 0 the tree traversal gives every non-fixed body the
\* acceleration updateGravityDirect gives it for the same configuration.
C7_ThetaZeroEqualsDirect ==
  ForcesDoneThetaZero =>
    \A t \in DOMAIN bodies :
      ~bodies[t].isFixed =>
        bodies[t].acceleration = UpdateGravityDirect(tickStart, G)[t].acceleration

\* C8: the acceleration of a fixed body is zero in every state, the states
\* between force accumulation and integration included.
C8_FixedNeverAccumulates ==
  \A i \in DOMAIN bodies : bodies[i].isFixed => bodies[i].acceleration = Zero3

\* What the selected gravity routine leaves of a body collection.
GravityPhase(bs) ==
  IF useBarnesHut THEN UpdateGravityBarnesHut(bs, G, theta)
  ELSE UpdateGravityDirect(bs, G)

\* C9: in a tick the tree is built from the positions the bodies had when
\* update was entered; while forces are accumulated no position or velocity
\* is written; every acceleration that is integrated is the one computed from
\* those positions; and the trajectories are sampled after all bodies moved.
C9_PhaseOrder ==
  /\ pc \in {"buildOctree", "insert", "barnesHut", "direct"} =>
       \A i \in DOMAIN bodies :
         /\ bodies[i].position = tickStart[i].position
         /\ bodies[i].velocity = tickStart[i].velocity
         /\ bodies[i].trajectory = tickStart[i].trajectory
  /\ pc = "barnesHut" => octreeRoot = BuildOctree(tickStart)
  /\ pc \in {"barnesHut", "direct"} =>
       \A i \in DOMAIN bodies :
         i < idx => bodies[i].acceleration = GravityPhase(tickStart)[i].acceleration
  /\ pc = "integrate" =>
       \A i \in DOMAIN bodies :
         bodies[i] = IF i < idx THEN Update(GravityPhase(tickStart)[i], Dt)
                     ELSE GravityPhase(tickStart)[i]
  /\ pc = "trajectory" =>
       \A i \in DOMAIN bodies : bodies[i] = Update(GravityPhase(tickStart)[i], Dt)

\* C9's case: in approximate mode the integration loop is under way: the
\* second body has moved, the third still holds the acceleration it got
\* from the tree.
C9_Witness ==
  /\ pc = "integrate" /\ idx = 3 /\ useBarnesHut
  /\ bodies[2].position # tickStart[2].position
  /\ bodies[3].position = tickStart[3].position
  /\ bodies[3].acceleration # Zero3

RECURSIVE HasOccupant(_)
\* Some node of the tree holds a body pointer.
HasOccupant(node) ==
  \/ node.body # NullBody
  \/ /\ node.children # NoChildren
     /\ \E i \in 1..8 : HasOccupant(node.children[i])

\* C10: right after a reset every body's trajectory holds exactly one
\* sample, its current position.
C10_ResetReseedsTrajectories ==
  (pc = "update" /\ "R" \in keys) =>
    \A i \in DOMAIN bodies : bodies[i].trajectory = <<bodies[i].position>>

\* C11: the tree kept in octreeRoot never holds a pointer to a body of a
\* collection that a reset has replaced: once the bodies are replaced, no
\* tree built from the old ones is still there.
C11_NoTreeOfOldBodies ==
  ~(treeStale /\ HasOccupant(octreeRoot))

\* The largest magnitude applyGravity may add for a source of mass m:
\* G * m / (0.1 * 0.1).
MaxPull(m) == RDiv(G * m * SCALE * SCALE, SOFTENING * SOFTENING)

RECURSIVE MaxPullOnto(_, _)
\* The sum of MaxPull over the bodies 1..k other than body i.
MaxPullOnto(i, k) ==
  IF k = 0 THEN 0
  ELSE MaxPullOnto(i, k - 1) + (IF k # i THEN MaxPull(bodies[k].mass) ELSE 0)

\* C12: what applyGravity adds for another body is a finite vector of
\* magnitude at most G * other.mass / (0.1 * 0.1), also when the two bodies
\* are at the same position: once updateGravityDirect has run over a free
\* body, its acceleration is no NaN and is within the sum of these limits.
C12_BoundedForce ==
  (~useBarnesHut /\ pc \in {"direct", "integrate"}) =>
    \A i \in DOMAIN bodies :
      (~bodies[i].isFixed /\ (pc = "integrate" \/ i < idx)) =>
        /\ ~IsNaN(bodies[i].acceleration)
        /\ Length(bodies[i].acceleration) <= MaxPullOnto(i, Len(bodies))

RECURSIVE ShapeHolds(_)
\* The shape of the subtree at `node`: a leaf has no children; an internal
\* node has eight, no occupant, each child one level deeper and half the
\* size; no depth is beyond OCTREE_MAX_DEPTH.
ShapeHolds(node) ==
  /\ node.isLeaf <=> node.children = NoChildren
  /\ node.depth <= OCTREE_MAX_DEPTH
  /\ node.children # NoChildren =>
       /\ Len(node.children) = 8
       /\ node.body = NullBody
       /\ \A i \in 1..8 :
            /\ node.children[i].depth = node.depth + 1
            /\ 2 * node.children[i].size = node.size
            /\ ShapeHolds(node.children[i])

RECURSIVE ReachesDepth(_, _)
\* Some node of the tree is at depth d.
ReachesDepth(node, d) ==
  \/ node.depth = d
  \/ /\ node.children # NoChildren
     /\ \E i \in 1..8 : ReachesDepth(node.children[i], d)

RECURSIVE DepthWithin(_, _)
\* No node of the tree is deeper than d.
DepthWithin(node, d) ==
  /\ node.depth <= d
  /\ node.children # NoChildren =>
       \A i \in 1..8 : DepthWithin(node.children[i], d)

\* C13: after any insertBody calls on a fresh root every node is a leaf
\* exactly when it has no children, every internal node has all eight
\* children and no occupant, every child is one level deeper and half as
\* large as its parent, and no node is deeper than OCTREE_MAX_DEPTH.
C13_TreeShape ==
  ShapeHolds(octreeRoot)

\* C13's case: all bodies were inserted, the tree was split down to
\* OCTREE_MAX_DEPTH and two bodies share a leaf there.
C13_Witness ==
  /\ pc = "treeUpdate"
  /\ ReachesDepth(octreeRoot, OCTREE_MAX_DEPTH)
  /\ HasMergedLeaf(octreeRoot)
  /\ ~octreeRoot.isLeaf

RECURSIVE LeafFor(_, _)
\* The leaf insertBody's descent ends in for a position inside the root.
LeafFor(node, position) ==
  IF node.children = NoChildren THEN node
  ELSE LeafFor(node.children[GetOctant(node, position) + 1], position)

\* C14: every insertBody call, also for a body at the position of one
\* already in the tree, returns having descended to a leaf no deeper than
\* OCTREE_MAX_DEPTH (one nested call per level, so at most
\* OCTREE_MAX_DEPTH + 1 of them) and made no node deeper than that; and
\* when the leaf the body lands in has an occupant and is at the depth or
\* size limit, that leaf is not subdivided, keeps its occupant, and its
\* totalMass grows by the new body's mass.
C14_InsertTerminatesWithMerge ==
  [][pc = "treeInsert" =>
       LET position == bodies[idx].position
           before == LeafFor(octreeRoot, position)
           after == LeafFor(octreeRoot', position)
       IN  /\ pc' \in {"treeInsert", "treeUpdate"}
           /\ after.depth <= OCTREE_MAX_DEPTH
           /\ DepthWithin(octreeRoot', OCTREE_MAX_DEPTH)
           /\ (before.body # NullBody /\ AtLimit(before)) =>
                /\ after.isLeaf /\ after.children = NoChildren
                /\ after.center = before.center
                /\ after.depth = before.depth
                /\ after.body = before.body
                /\ after.totalMass = before.totalMass + bodies[idx].mass]_vars

\* C14's case: the second body, at the very position of the first, has been
\* merged into the first one's leaf at OCTREE_MAX_DEPTH, and a third body
\* is about to be inserted.
C14_Witness ==
  /\ pc = "treeInsert" /\ idx = 3
  /\ bodies[1].position = bodies[2].position
  /\ ReachesDepth(octreeRoot, OCTREE_MAX_DEPTH)
  /\ LeafFor(octreeRoot, bodies[1].position).body = 1
  /\ LeafFor(octreeRoot, bodies[1].position).totalMass
       = bodies[1].mass + bodies[2].mass

RECURSIVE NoSelfForce(_, _)
\* Along calculateForce's traversal from `node` for target t: a leaf whose
\* occupant is t adds nothing, and a node taken as a single point mass does
\* not have t among the bodies of its cube.
NoSelfForce(node, t) ==
  IF node.totalMass = 0 THEN TRUE
  ELSE IF node.isLeaf /\ node.body # NullBody
  THEN node.body = t => LeafForce(node, bodies, t, G) = Zero3
  ELSE IF ~node.isLeaf
  THEN IF ShouldUseApproximation(node, bodies[t].position, theta)
       THEN ~Contains(node, bodies[t].position)
       ELSE \A i \in 1..8 : NoSelfForce(node.children[i], t)
  ELSE TRUE

RECURSIVE Approximates(_, _)
\* calculateForce's traversal from `node` for target t takes some internal
\* node as a single point mass.
Approximates(node, t) ==
  /\ node.totalMass # 0
  /\ ~node.isLeaf
  /\ \/ ShouldUseApproximation(node, bodies[t].position, theta)
     \/ \E i \in 1..8 : Approximates(node.children[i], t)

\* The tree is built, every body lies inside the root cube, and the force
\* loop runs with theta = 0.5.
TraversalAtHalf ==
  /\ pc = "barnesHut" /\ theta = BARNES_HUT_THETA
  /\ \A i \in DOMAIN bodies : Contains(octreeRoot, bodies[i].position)

\* C15: with every body inside the root cube and theta = 0.5, calculateForce
\* adds to no target a contribution that includes the target's own mass: the
\* leaf the target occupies is skipped, and no node approximated for the
\* target has the target among its bodies.
C15_NoSelfForce ==
  TraversalAtHalf => \A t \in DOMAIN bodies : NoSelfForce(octreeRoot, t)

\* C15's case: for the last body some internal node, holding two merged
\* bodies, is approximated, while the traversal for another body opens
\* every node down to that body's own leaf.
C15_Witness ==
  /\ TraversalAtHalf /\ Len(bodies) = 4
  /\ HasMergedLeaf(octreeRoot)
  /\ Approximates(octreeRoot, 4)
  /\ ~Approximates(octreeRoot, 1)
  /\ LeafFor(octreeRoot, bodies[1].position).body = 1

====
